---- MODULE Spec2Model ----
(***************************************************************************)
(* GreenPulse dashboard backend (GREENPULSE/app.py).                       *)
(*                                                                         *)
(* Numbers.  Python floats are modelled as exact fixed-point integers:     *)
(*   noise, jitter factor           thousandths                            *)
(*   traffic_factor, base_*         tenths                                 *)
(*   unrounded co/c6h6/nox/no2      1e-5  (tenths * tenths * thousandths)  *)
(*   stored co/c6h6/nox/no2/score   hundredths (round(x, 2))               *)
(*   stored temp/rh                 tenths     (round(x, 1))               *)
(*   predicted_score                1e-5  (hundredths * thousandths)       *)
(* round() is round-half-to-even on the exact value.                       *)
(* A feature is a rational <<numerator, denominator>>.                     *)
(* Time is minutes since Monday 2024-01-01 00:00 local time.               *)
(***************************************************************************)
EXTENDS Integers, Sequences, FiniteSets, TLC

VARIABLES
    model,            \* module global `model`: "None" or the loaded object
    scaler,           \* module global `scaler`: "None" or the loaded object
    loadOutcome,      \* which joblib.load of the startup block raised, if any
    served,           \* "none", "refresh", "generate" or "prepare": last call
    historical,       \* list returned by the last generate_historical_data
    features,         \* array built by the last prepare_features, or <<>>
    transformCalls,   \* arguments scaler.transform received in the last call
    predictCalls,     \* number of model.predict calls in the last call
    predicted_score,  \* local predicted_score before rounding (1e-5 units)
    fallbackFactor,   \* the random.uniform(0.9, 1.1) draw used, or 0
    raised,           \* message of the exception caught in the last call, or ""
    response,         \* JSON body returned by the last refresh_data
    http_status,      \* HTTP status returned by the last refresh_data
    callArgs,         \* arguments of the last call: <<hours>> or prepare_features' four
    clock,            \* environment: the wall clock when the last call ended
    rngState          \* environment: state of the `random` module's generator

vars == <<model, scaler, loadOutcome, served, historical, features,
          transformCalls, predictCalls, predicted_score, fallbackFactor,
          raised, response, http_status, callArgs, clock, rngState>>

----------------------------------------------------------------------------
(* Bounds of the model *)

\* number of newest readings whose random draws are chosen freely
TailLen == 2
\* largest `hours` argument tried when generate_historical_data is called alone
MaxHours == 7
\* number of consecutive wall-clock hours tried for datetime.now()
NowSpan == 24

----------------------------------------------------------------------------
(* Arithmetic helpers *)

\* round(x / q) to the nearest integer, ties to even (Python round()).
RoundHalfEven(x, q) ==
    LET r == x % q
        f == (x - r) \div q
    IN  IF 2 * r < q THEN f
        ELSE IF 2 * r > q THEN f + 1
        ELSE IF f % 2 = 0 THEN f ELSE f + 1

\* max(lo, min(hi, x)) on numbers
Clamp(x, lo, hi) ==
    LET m == IF x < hi THEN x ELSE hi
    IN  IF m > lo THEN m ELSE lo

RECURSIVE SumSeq(_)
SumSeq(s) == IF s = <<>> THEN 0 ELSE Head(s) + SumSeq(Tail(s))

\* np.mean of a list of values held in hundredths, as a rational
Mean(s) == <<SumSeq(s), 100 * Len(s)>>

\* list[-n:]
LastN(s, n) == IF Len(s) <= n THEN s ELSE SubSeq(s, Len(s) - n + 1, Len(s))

----------------------------------------------------------------------------
(* Clock and calendar *)

\* first wall-clock instant tried: Wednesday 2024-01-31 00:59
NowBase == 30 * 1440 + 59

NowSet == { NowBase + 60 * k : k \in 0 .. NowSpan - 1 }

\* a second datetime.now() in the same request is the same minute or the next
LaterNow(now) == { now, now + 1 }

HourOf(t) == (t \div 60) % 24
MinuteOf(t) == t % 60
DayIndex(t) == t \div 1440

\* datetime.weekday(): Monday is 0
Weekday(t) == DayIndex(t) % 7

\* datetime.month, for the days of 2024
MonthOf(t) ==
    LET d == DayIndex(t) % 366
    IN  IF d < 31 THEN 1 ELSE IF d < 60 THEN 2 ELSE IF d < 91 THEN 3
        ELSE IF d < 121 THEN 4 ELSE IF d < 152 THEN 5 ELSE IF d < 182 THEN 6
        ELSE IF d < 213 THEN 7 ELSE IF d < 244 THEN 8 ELSE IF d < 274 THEN 9
        ELSE IF d < 305 THEN 10 ELSE IF d < 335 THEN 11 ELSE 12

\* strftime('%Y-%m-%d %H:%M:%S') keeps the date and the time of day
FormatTimestamp(t) == <<DayIndex(t), HourOf(t), MinuteOf(t)>>

\* strftime('%H:%M')
FormatHour(t) == <<HourOf(t), MinuteOf(t)>>

----------------------------------------------------------------------------
(* generate_historical_data *)

base_co == 25
base_c6h6 == 80
base_nox == 2000
base_no2 == 1100
base_temp == 2200
base_rh == 5000

\* Values tried for the three draws of one reading:
\* noise = random.uniform(0.85, 1.15), thousandths
Noises == <<850, 890, 1120, 1150>>
\* random.uniform(-3, 3), hundredths
TempDraws == <<-300, 4, 296>>
\* random.uniform(-10, 10), hundredths
RhDraws == <<1000, -4, -1000, 627, 333>>

RECURSIVE Pow(_, _)
Pow(b, e) == IF e = 0 THEN 1 ELSE b * Pow(b, e - 1)

\* The generator states tried: one per combination of noise draws for the
\* newest TailLen readings.  A call uses the combination its state names and
\* leaves the generator in the next state.
RngPeriod == Pow(Len(Noises), TailLen)

RngNext(s) == (s + 1) % RngPeriod

\* The draws of a call with `hours` readings made in generator state s, indexed
\* by the loop variable i (i = 1 is the newest reading): the newest TailLen
\* readings take the noise combination s names, the older ones cycle through
\* Noises; the temperature and humidity draws cycle independently of the noise.
DrawsFor(s, hours) ==
    [i \in 1 .. hours |->
        [ noise |-> IF i <= TailLen
                    THEN Noises[((s \div Pow(Len(Noises), i - 1)) % Len(Noises)) + 1]
                    ELSE Noises[(i % Len(Noises)) + 1],
          dtemp |-> TempDraws[((s + i) % Len(TempDraws)) + 1],
          drh   |-> RhDraws[((s + 2 * i) % Len(RhDraws)) + 1] ]]

\* random.uniform(0.9, 1.1) values tried, thousandths
Jitters == <<900, 1000, 1100>>

JitterFor(s) == Jitters[(s % Len(Jitters)) + 1]

\* the morning rush hour ending before 9: `7 <= hour < 9`
TrafficFactor_EarlyEnd(hour) ==
    IF (7 <= hour /\ hour < 9) \/ (17 <= hour /\ hour <= 19) THEN 15
    ELSE IF 22 <= hour \/ hour <= 5 THEN 6
    ELSE 10

\* tenths
TrafficFactor(hour) ==
    IF (7 <= hour /\ hour <= 9) \/ (17 <= hour /\ hour <= 19) THEN 15
    ELSE IF 22 <= hour \/ hour <= 5 THEN 6
    ELSE 10

\* pollutant_avg without the division by 4
RawScoreNum_NoAverage(co, c6h6, nox, no2) ==
    480000000 - 4 * (240 * co + 80 * c6h6 + 3 * nox + 6 * no2)

\* 10 * (1 - pollutant_avg) as the rational <<numerator, 48000000>>, from the
\* unrounded pollutants (1e-5 units):
\*   pollutant_avg = (co/5 + c6h6/15 + nox/400 + no2/200) / 4
\*                 = (240 co + 80 c6h6 + 3 nox + 6 no2) / (1200 * 4)
RawScoreNum(co, c6h6, nox, no2) ==
    480000000 - (240 * co + 80 * c6h6 + 3 * nox + 6 * no2)

\* max(0, min(10, 10 * (1 - pollutant_avg))), numerator over 48000000
ScoreNum(co, c6h6, nox, no2) ==
    Clamp(RawScoreNum(co, c6h6, nox, no2), 0, 480000000)

\* the dict appended for loop variable i
MakeReading(timestamp, draw) ==
    LET hour == HourOf(timestamp)
        traffic_factor == TrafficFactor(hour)
        noise == draw.noise
        co == base_co * traffic_factor * noise
        c6h6 == base_c6h6 * traffic_factor * noise
        nox == base_nox * traffic_factor * noise
        no2 == base_no2 * traffic_factor * noise
        temp == base_temp + draw.dtemp
        rh == base_rh + draw.drh
    IN  [ timestamp |-> FormatTimestamp(timestamp),
          hour      |-> FormatHour(timestamp),
          co        |-> RoundHalfEven(co, 1000),
          c6h6      |-> RoundHalfEven(c6h6, 1000),
          nox       |-> RoundHalfEven(nox, 1000),
          no2       |-> RoundHalfEven(no2, 1000),
          temp      |-> RoundHalfEven(temp, 10),
          rh        |-> RoundHalfEven(rh, 10),
          score     |-> RoundHalfEven(ScoreNum(co, c6h6, nox, no2), 480000) ]

\* the loop written as range(hours - 1, -1, -1): it ends at `now`
generate_historical_data_ToNow(hours, current_time, draws) ==
    [k \in 1 .. hours |->
        MakeReading(current_time - 60 * (hours - k), draws[hours - k + 1])]

\* for i in range(hours, 0, -1): data.append(...): the k-th reading appended
\* is the one of loop variable i = hours - k + 1
generate_historical_data(hours, current_time, draws) ==
    [k \in 1 .. hours |->
        LET i == hours - k + 1
        IN  MakeReading(current_time - 60 * i, draws[i])]

----------------------------------------------------------------------------
(* Startup: the module-level load of the model and the scaler *)

None == [kind |-> "None", v |-> 0]

\* What a loaded model does when model.predict is called: return the score v
\* (1e-5 units), return NaN, or raise.
Predictors ==
    { [kind |-> "value", v |-> x] :
        x \in { -50000, 399900, 400000, 649900, 650000, 720000, 1200000 } }
    \cup { [kind |-> "nan", v |-> 0], [kind |-> "raise", v |-> 0] }

\* What a loaded scaler does when scaler.transform is called
GoodScaler == [kind |-> "ok", v |-> 0]
BadScaler == [kind |-> "raise", v |-> 0]

\* The (model, scaler) pairs tried as the content of the two pickle files
Artifacts ==
    { <<p, GoodScaler>> : p \in Predictors }
    \cup { <<[kind |-> "value", v |-> 720000], BadScaler>> }

LoadOutcomes == { "ok", "model_load_raises", "scaler_load_raises" }

\* the except clause resetting only the scaler: a model loaded at line 12
\* survives a failure of line 13
Startup_ScalerOnlyReset(outcome, artifacts) ==
    IF outcome = "ok"
    THEN [model |-> artifacts[1], scaler |-> artifacts[2]]
    ELSE IF outcome = "scaler_load_raises"
    THEN [model |-> artifacts[1], scaler |-> None]
    ELSE [model |-> None, scaler |-> None]

\* try: model = load(...); scaler = load(...)
\* except Exception: model = None; scaler = None
Startup(outcome, artifacts) ==
    LET model1 == artifacts[1]           \* line 12 completed
        scaler1 == artifacts[2]          \* line 13 completed
    IN  IF outcome = "ok"
        THEN [model |-> model1, scaler |-> scaler1]
        ELSE [model |-> None, scaler |-> None]

\* truth value of `obj` in `if model and scaler`
Truthy(obj) == obj.kind # "None"

----------------------------------------------------------------------------
(* prepare_features *)

\* prepare_features with rolling_6h['co'] and rolling_3h['nox'] exchanged
prepare_features_Swapped(current_data, lag_data, rolling_3h, rolling_6h) ==
    LET no2_nox_ratio ==
            IF current_data.nox > 0
            THEN <<current_data.no2, current_data.nox>>
            ELSE <<0, 1>>
    IN  << <<current_data.temp, 10>>,
           <<current_data.rh, 10>>,
           <<current_data.hour_num, 1>>,
           <<current_data.day_of_week, 1>>,
           <<current_data.month, 1>>,
           <<lag_data.co, 100>>,
           <<lag_data.c6h6, 100>>,
           <<lag_data.nox, 100>>,
           <<lag_data.no2, 100>>,
           <<lag_data.temp, 10>>,
           <<lag_data.rh, 10>>,
           rolling_3h.co,
           rolling_3h.nox,
           rolling_6h.co,
           rolling_6h.nox,
           no2_nox_ratio >>

prepare_features(current_data, lag_data, rolling_3h, rolling_6h) ==
    LET no2_nox_ratio ==
            IF current_data.nox > 0
            THEN <<current_data.no2, current_data.nox>>
            ELSE <<0, 1>>
    IN  << <<current_data.temp, 10>>,
           <<current_data.rh, 10>>,
           <<current_data.hour_num, 1>>,
           <<current_data.day_of_week, 1>>,
           <<current_data.month, 1>>,
           <<lag_data.co, 100>>,
           <<lag_data.c6h6, 100>>,
           <<lag_data.nox, 100>>,
           <<lag_data.no2, 100>>,
           <<lag_data.temp, 10>>,
           <<lag_data.rh, 10>>,
           rolling_3h.co,
           rolling_6h.co,
           rolling_3h.nox,
           rolling_6h.nox,
           no2_nox_ratio >>

----------------------------------------------------------------------------
(* refresh_data *)

\* lines 119-156: the four arguments of prepare_features
FeatureArgs(hist, now) ==
    LET current == hist[Len(hist)]
        lag_data == hist[Len(hist) - 1]
        last_3h == LastN(hist, 3)
        last_6h == LastN(hist, 6)
    IN  [ current_data |->
            [ co |-> current.co, c6h6 |-> current.c6h6, nox |-> current.nox,
              no2 |-> current.no2, temp |-> current.temp, rh |-> current.rh,
              hour_num |-> HourOf(now), day_of_week |-> Weekday(now),
              month |-> MonthOf(now) ],
          lag_data |->
            [ co |-> lag_data.co, c6h6 |-> lag_data.c6h6, nox |-> lag_data.nox,
              no2 |-> lag_data.no2, temp |-> lag_data.temp, rh |-> lag_data.rh ],
          rolling_3h |->
            [ co |-> Mean([k \in 1 .. Len(last_3h) |-> last_3h[k].co]),
              nox |-> Mean([k \in 1 .. Len(last_3h) |-> last_3h[k].nox]) ],
          rolling_6h |->
            [ co |-> Mean([k \in 1 .. Len(last_6h) |-> last_6h[k].co]),
              nox |-> Mean([k \in 1 .. Len(last_6h) |-> last_6h[k].nox]) ] ]

\* the length test off by one: `len(historical) >= 5`
UsesModel_OffByOne(hist, mdl, scl) == Len(hist) >= 5 /\ Truthy(mdl) /\ Truthy(scl)

\* `len(historical) >= 6` and `model and scaler`
UsesModel(hist, mdl, scl) == Len(hist) >= 6 /\ Truthy(mdl) /\ Truthy(scl)

\* the prediction left unclamped
ClampPrediction_Missing(mdl) ==
    IF mdl.kind = "nan" THEN 1000000 ELSE mdl.v

\* predicted_score = max(0, min(10, float(model.predict(...)[0])))
\* min(10, nan) is 10 in Python: nan < 10 is false.
ClampPrediction(mdl) ==
    IF mdl.kind = "nan" THEN 1000000 ELSE Clamp(mdl.v, 0, 1000000)

\* predicted_score = current['score'] * random.uniform(0.9, 1.1)
FallbackScore(current, factor) == current.score * factor

\* `current_score > 6.5`
ClassifyCurrent_Strict(current_score) ==
    IF current_score > 650 THEN <<"Safe", "green">>
    ELSE IF current_score >= 400 THEN <<"Moderate", "yellow">>
    ELSE <<"High Emissions", "red">>

\* lines 170-179, current_score in hundredths
ClassifyCurrent(current_score) ==
    IF current_score >= 650 THEN <<"Safe", "green">>
    ELSE IF current_score >= 400 THEN <<"Moderate", "yellow">>
    ELSE <<"High Emissions", "red">>

\* `predicted_score > 4.0`
ClassifyPredicted_Strict(score) ==
    IF score >= 650000 THEN <<"Safe", "green">>
    ELSE IF score > 400000 THEN <<"Moderate", "yellow">>
    ELSE <<"High Emissions", "red">>

\* lines 181-189, predicted_score in 1e-5 units
ClassifyPredicted(score) ==
    IF score >= 650000 THEN <<"Safe", "green">>
    ELSE IF score >= 400000 THEN <<"Moderate", "yellow">>
    ELSE <<"High Emissions", "red">>

\* lines 191-215
SuccessBody(hist, predicted) ==
    LET current == hist[Len(hist)]
        current_score == current.score
        cls == ClassifyCurrent(current_score)
        pcls == ClassifyPredicted(predicted)
    IN  [ success |-> TRUE,
          current |->
            [ score |-> RoundHalfEven(current_score, 1),
              status |-> cls[1], color |-> cls[2],
              timestamp |-> current.timestamp,
              co |-> current.co, nox |-> current.nox, no2 |-> current.no2,
              temp |-> current.temp, rh |-> current.rh ],
          prediction |->
            [ score |-> RoundHalfEven(predicted, 1000),
              status |-> pcls[1], color |-> pcls[2] ],
          historical |->
            [k \in 1 .. Len(hist) |-> [time |-> hist[k].hour, score |-> hist[k].score]] ]

\* lines 217-222
ErrorBody(message) == [success |-> FALSE, error |-> message]

OkStatus == 200

\* the except clause returning without `, 500`
ErrorStatus_Default == OkStatus

ErrorStatus == 500

\* What the except clause makes of an exception with this message
Failure(hist, feats, tcalls, pcalls, message) ==
    [ historical |-> hist, features |-> feats, transformCalls |-> tcalls,
      predictCalls |-> pcalls, predicted_score |-> 0, fallbackFactor |-> 0,
      raised |-> message, response |-> ErrorBody(message),
      http_status |-> ErrorStatus ]

\* The body of refresh_data for the list `hist` that generate_historical_data
\* returned, the second datetime.now() `now`, the random.uniform(0.9, 1.1)
\* draw `factor` and the module globals.
Handle(hist, now, factor, mdl, scl) ==
    IF Len(hist) = 0
    THEN Failure(hist, <<>>, <<>>, 0, "list index out of range")
    ELSE IF UsesModel(hist, mdl, scl)
    THEN LET a == FeatureArgs(hist, now)
             feats == prepare_features(a.current_data, a.lag_data,
                                       a.rolling_3h, a.rolling_6h)
         IN  IF scl.kind = "raise"
             THEN Failure(hist, feats, <<feats>>, 0, "transform raised")
             ELSE IF mdl.kind = "raise"
             THEN Failure(hist, feats, <<feats>>, 1, "predict raised")
             ELSE [ historical |-> hist, features |-> feats,
                    transformCalls |-> <<feats>>, predictCalls |-> 1,
                    predicted_score |-> ClampPrediction(mdl),
                    fallbackFactor |-> 0, raised |-> "",
                    response |-> SuccessBody(hist, ClampPrediction(mdl)),
                    http_status |-> OkStatus ]
    ELSE LET predicted == FallbackScore(hist[Len(hist)], factor)
         IN  [ historical |-> hist, features |-> <<>>,
               transformCalls |-> <<>>, predictCalls |-> 0,
               predicted_score |-> predicted,
               fallbackFactor |-> factor, raised |-> "",
               response |-> SuccessBody(hist, predicted),
               http_status |-> OkStatus ]

----------------------------------------------------------------------------
(* The server *)

NoResponse == [success |-> FALSE, error |-> ""]

Init ==
    /\ \E outcome \in LoadOutcomes, artifacts \in Artifacts :
          /\ loadOutcome = outcome
          /\ model = Startup(outcome, artifacts).model
          /\ scaler = Startup(outcome, artifacts).scaler
    /\ clock \in NowSet
    /\ rngState \in 0 .. RngPeriod - 1
    /\ served = "none"
    /\ historical = <<>>
    /\ features = <<>>
    /\ transformCalls = <<>>
    /\ predictCalls = 0
    /\ predicted_score = 0
    /\ fallbackFactor = 0
    /\ raised = ""
    /\ response = NoResponse
    /\ http_status = 0
    /\ callArgs = <<>>

\* The instants a call can read from datetime.now(): those tried that are at
\* most an hour after the last reading of the clock.
NextNow == { t \in NowSet : clock <= t /\ t <= clock + 60 }

\* GET /api/refresh-data with generate_historical_data(hours)
Refresh(hours) ==
    \E now \in NextNow : \E now2 \in LaterNow(now) :
    \E draws \in { DrawsFor(rngState, hours) } :
    \E hist \in { generate_historical_data(hours, now, draws) } :
    \E out \in { Handle(hist, now2, JitterFor(rngState), model, scaler) } :
        /\ served' = "refresh"
        /\ historical' = out.historical
        /\ features' = out.features
        /\ transformCalls' = out.transformCalls
        /\ predictCalls' = out.predictCalls
        /\ predicted_score' = out.predicted_score
        /\ fallbackFactor' = out.fallbackFactor
        /\ raised' = out.raised
        /\ response' = out.response
        /\ http_status' = out.http_status
        /\ clock' = now2
        /\ rngState' = RngNext(rngState)
        /\ callArgs' = <<hours>>
        /\ UNCHANGED <<model, scaler, loadOutcome>>

\* the literal of line 112
HistoryHours == 24

RefreshData == Refresh(HistoryHours)

Next == RefreshData

Spec == Init /\ [][Next]_vars

----------------------------------------------------------------------------
(* The functions called on their own *)

\* generate_historical_data(hours) called directly
GenerateCall(hours) ==
    \E now \in NextNow :
        /\ served' = "generate"
        /\ historical' = generate_historical_data(hours, now, DrawsFor(rngState, hours))
        /\ features' = <<>>
        /\ transformCalls' = <<>>
        /\ predictCalls' = 0
        /\ predicted_score' = 0
        /\ fallbackFactor' = 0
        /\ raised' = ""
        /\ response' = NoResponse
        /\ http_status' = 0
        /\ callArgs' = <<hours>>
        /\ clock' = now
        /\ rngState' = RngNext(rngState)
        /\ UNCHANGED <<model, scaler, loadOutcome>>

\* Arguments tried for a direct call of prepare_features
CurrentSamples ==
    { [ co |-> 250, c6h6 |-> 800, nox |-> x, no2 |-> y, temp |-> 215, rh |-> 480,
        hour_num |-> 13, day_of_week |-> 2, month |-> 7 ]
      : x \in { -100, 0, 20000 }, y \in { 0, 11000 } }

LagSample ==
    [ co |-> 150, c6h6 |-> 480, nox |-> 12000, no2 |-> 6600, temp |-> 231, rh |-> 552 ]

Rolling3Sample == [ co |-> <<600, 300>>, nox |-> <<51000, 300>> ]
Rolling6Sample == [ co |-> <<1300, 600>>, nox |-> <<99000, 600>> ]

\* prepare_features(current_data, lag_data, rolling_3h, rolling_6h) called directly
PrepareCall ==
    \E current_data \in CurrentSamples :
        /\ served' = "prepare"
        /\ callArgs' = <<current_data, LagSample, Rolling3Sample, Rolling6Sample>>
        /\ features' = prepare_features(current_data, LagSample,
                                        Rolling3Sample, Rolling6Sample)
        /\ historical' = <<>>
        /\ transformCalls' = <<>>
        /\ predictCalls' = 0
        /\ predicted_score' = 0
        /\ fallbackFactor' = 0
        /\ raised' = ""
        /\ response' = NoResponse
        /\ http_status' = 0
        /\ UNCHANGED <<model, scaler, loadOutcome, clock, rngState>>

\* The artifacts tried when the functions are called on their own
UnitArtifacts ==
    { a \in Artifacts : a[1].kind = "raise" \/ a[1].v = 720000 }

InitUnit ==
    /\ Init
    /\ loadOutcome = "ok" => <<model, scaler>> \in UnitArtifacts

\* One call is made in a freshly started process.
GenerateAny == served = "none" /\ \E hours \in 1 .. MaxHours : GenerateCall(hours)

\* refresh_data over a history of any length
RefreshAny == served = "none" /\ \E hours \in 0 .. MaxHours : Refresh(hours)

PrepareAny == served = "none" /\ PrepareCall

NextUnit == GenerateAny \/ RefreshAny \/ PrepareAny

SpecUnit == InitUnit /\ [][NextUnit]_vars

----------------------------------------------------------------------------
(* Properties *)

\* equality of two rationals
RatEq(a, b) == a[1] * b[2] = b[1] * a[2]

\* the instant a stored timestamp names, in minutes
ToMinutes(ts) == ts[1] * 1440 + ts[2] * 60 + ts[3]

\* the newest reading of the last history
Current == historical[Len(historical)]

\* C1: in a refresh_data request scaler.transform and model.predict are called
\* only when the history has at least 6 readings and model and scaler are both
\* present; otherwise neither is called and the predicted score is the current
\* reading's score times one factor from [0.9, 1.1].
C1_ModelCalledOnlyWithSixReadings ==
    served = "refresh" =>
        LET eligible == Len(historical) >= 6 /\ model # None /\ scaler # None
        IN  /\ (transformCalls # <<>> \/ predictCalls > 0) => eligible
            /\ eligible => Len(transformCalls) = 1
            /\ (~eligible /\ Len(historical) > 0) =>
                  /\ transformCalls = <<>>
                  /\ predictCalls = 0
                  /\ raised = ""
                  /\ 900 <= fallbackFactor /\ fallbackFactor <= 1100
                  /\ predicted_score = Current.score * fallbackFactor

\* a request over 5 readings with model and scaler loaded took the fallback
C1_Witness ==
    /\ served = "refresh"
    /\ Len(historical) = 5
    /\ model # None /\ scaler # None
    /\ transformCalls = <<>> /\ predictCalls = 0
    /\ response.success
    /\ predicted_score = Current.score * 1100

\* C4: for a history R of at least 6 readings the vector given to
\* scaler.transform has exactly 16 entries: current temp, current rh, wall-clock
\* hour, weekday and month, then co, c6h6, nox, no2, temp, rh of R[-2], then the
\* mean co of the last 3 and of the last 6 readings, the mean nox of the last 3
\* and of the last 6, and no2/nox of R[-1] when its nox > 0 and 0 otherwise;
\* prepare_features itself never divides by a nox that is not positive.
C4_FeatureVectorLayout ==
    /\ (served = "refresh" /\ transformCalls # <<>>) =>
          /\ Len(historical) >= 6
          /\ LET f == transformCalls[1]
                 R == historical
                 n == Len(historical)
             IN  /\ Len(f) = 16
                 /\ RatEq(f[1], <<R[n].temp, 10>>)
                 /\ RatEq(f[2], <<R[n].rh, 10>>)
                 /\ RatEq(f[3], <<HourOf(clock), 1>>)
                 /\ RatEq(f[4], <<Weekday(clock), 1>>)
                 /\ RatEq(f[5], <<MonthOf(clock), 1>>)
                 /\ RatEq(f[6], <<R[n-1].co, 100>>)
                 /\ RatEq(f[7], <<R[n-1].c6h6, 100>>)
                 /\ RatEq(f[8], <<R[n-1].nox, 100>>)
                 /\ RatEq(f[9], <<R[n-1].no2, 100>>)
                 /\ RatEq(f[10], <<R[n-1].temp, 10>>)
                 /\ RatEq(f[11], <<R[n-1].rh, 10>>)
                 /\ RatEq(f[12], <<R[n].co + R[n-1].co + R[n-2].co, 300>>)
                 /\ RatEq(f[13], <<R[n].co + R[n-1].co + R[n-2].co
                                     + R[n-3].co + R[n-4].co + R[n-5].co, 600>>)
                 /\ RatEq(f[14], <<R[n].nox + R[n-1].nox + R[n-2].nox, 300>>)
                 /\ RatEq(f[15], <<R[n].nox + R[n-1].nox + R[n-2].nox
                                     + R[n-3].nox + R[n-4].nox + R[n-5].nox, 600>>)
                 /\ f[16][2] # 0
                 /\ IF R[n].nox > 0
                    THEN RatEq(f[16], <<R[n].no2, R[n].nox>>)
                    ELSE RatEq(f[16], <<0, 1>>)
    /\ served = "prepare" =>
          LET f == features
              cur == callArgs[1]
              lag == callArgs[2]
              r3 == callArgs[3]
              r6 == callArgs[4]
          IN  /\ Len(f) = 16
              /\ \A k \in 1 .. 16 : f[k][2] # 0
              /\ RatEq(f[1], <<cur.temp, 10>>)
              /\ RatEq(f[2], <<cur.rh, 10>>)
              /\ RatEq(f[3], <<cur.hour_num, 1>>)
              /\ RatEq(f[4], <<cur.day_of_week, 1>>)
              /\ RatEq(f[5], <<cur.month, 1>>)
              /\ RatEq(f[6], <<lag.co, 100>>)
              /\ RatEq(f[7], <<lag.c6h6, 100>>)
              /\ RatEq(f[8], <<lag.nox, 100>>)
              /\ RatEq(f[9], <<lag.no2, 100>>)
              /\ RatEq(f[10], <<lag.temp, 10>>)
              /\ RatEq(f[11], <<lag.rh, 10>>)
              /\ RatEq(f[12], r3.co)
              /\ RatEq(f[13], r6.co)
              /\ RatEq(f[14], r3.nox)
              /\ RatEq(f[15], r6.nox)
              /\ IF cur.nox > 0
                 THEN RatEq(f[16], <<cur.no2, cur.nox>>)
                 ELSE RatEq(f[16], <<0, 1>>)

\* a request over 7 readings handed its vector to scaler.transform after the
\* wall clock had moved into the next hour
C4_Witness ==
    /\ served = "refresh"
    /\ Len(historical) = 7
    /\ Len(transformCalls) = 1
    /\ Len(transformCalls[1]) = 16
    /\ MinuteOf(clock) = 0
    /\ transformCalls[1][12] # transformCalls[1][13]

\* C5: for hours >= 1, generate_historical_data(hours) returns exactly `hours`
\* readings, oldest first, with timestamps now - hours, ..., now - 1 hours:
\* strictly increasing, one hour apart, `now` itself excluded.
C5_GenerateLengthAndTimestamps ==
    served = "generate" =>
        LET hours == callArgs[1]
            now == clock
        IN  /\ Len(historical) = hours
            /\ \A k \in 1 .. Len(historical) :
                  ToMinutes(historical[k].timestamp) = now - 60 * (hours - k + 1)
            /\ \A k \in 1 .. Len(historical) - 1 :
                  ToMinutes(historical[k + 1].timestamp)
                      = ToMinutes(historical[k].timestamp) + 60
            /\ \A k \in 1 .. Len(historical) :
                  ToMinutes(historical[k].timestamp) < now

\* a direct call with hours = 3 returned three readings ending an hour ago
C5_Witness ==
    /\ served = "generate"
    /\ callArgs = <<3>>
    /\ Len(historical) = 3
    /\ ToMinutes(historical[3].timestamp) = clock - 60

Bands == { <<"Safe", "green">>, <<"Moderate", "yellow">>, <<"High Emissions", "red">> }

\* the model or the scaler raised in the last request
ScoringRaised ==
    /\ Len(historical) >= 6 /\ model # None /\ scaler # None
    /\ (scaler.kind = "raise" \/ model.kind = "raise")

\* C2: an exception raised while generating or scoring (scaler.transform and
\* model.predict included) ends the request with {success: false, error:
\* <message>} and status 500; a response has success = true only when
\* generation, scoring and both classifications completed; a failed request
\* leaves the model and the scaler as they were.
C2_FailureIsStructured ==
    /\ [](served = "refresh" =>
            /\ ScoringRaised =>
                  /\ raised # ""
                  /\ response = [success |-> FALSE, error |-> raised]
                  /\ http_status = 500
            /\ (raised # "") <=> ~response.success
            /\ response.success =>
                  /\ ~ScoringRaised
                  /\ http_status = 200
                  /\ Len(historical) = callArgs[1]
                  /\ Len(response.historical) = Len(historical)
                  /\ (model # None /\ scaler # None) =>
                        (Len(transformCalls) = 1 /\ predictCalls = 1)
                  /\ <<response.current.status, response.current.color>> \in Bands
                  /\ <<response.prediction.status, response.prediction.color>> \in Bands)
    /\ [][raised' # "" => (model' = model /\ scaler' = scaler
                            /\ loadOutcome' = loadOutcome)]_vars

\* model.predict raised and the request answered 500 with the message
C2_Witness ==
    /\ served = "refresh"
    /\ raised = "predict raised"
    /\ predictCalls = 1
    /\ response = [success |-> FALSE, error |-> "predict raised"]
    /\ http_status = 500

\* C3: when loading the model or the scaler fails at startup the process still
\* starts with both absent, every later request takes the fallback path and
\* succeeds, and no request changes the model or the scaler.
C3_LoadFailureDegrades ==
    /\ [](loadOutcome # "ok" =>
            /\ model = None /\ scaler = None
            /\ served = "refresh" =>
                  /\ response.success
                  /\ http_status = 200
                  /\ transformCalls = <<>> /\ predictCalls = 0
                  /\ fallbackFactor # 0
                  /\ predicted_score = Current.score * fallbackFactor)
    /\ []((model = None) <=> (scaler = None))
    /\ [][model' = model /\ scaler' = scaler]_vars

\* the scaler failed to load and a request was served from the fallback
C3_Witness ==
    /\ loadOutcome = "scaler_load_raises"
    /\ served = "refresh"
    /\ response.success
    /\ fallbackFactor = 900

\* the score the formula of the claim gives a reading, in hundredths, from the
\* product traffic factor * noise that its stored nox (= 200 * product) shows
ExpectedScore(r) ==
    LET tn == r.nox \div 2
        co == 25 * tn
        c6h6 == 80 * tn
        nox == 2000 * tn
        no2 == 1100 * tn
        raw == 480000000 - (240 * co + 80 * c6h6 + 3 * nox + 6 * no2)
        clamped == IF raw < 0 THEN 0 ELSE IF raw > 480000000 THEN 480000000 ELSE raw
    IN  RoundHalfEven(clamped, 480000)

SamePollutants(a, b) ==
    a.co = b.co /\ a.c6h6 = b.c6h6 /\ a.nox = b.nox /\ a.no2 = b.no2

\* C6: every generated reading has 0 <= score <= 10, with
\* score = clamp(10 * (1 - (co/5 + c6h6/15 + nox/400 + no2/200)/4), 0, 10),
\* whatever the hour and the noise draw; temp and rh do not enter it.
C6_ScoreInRange ==
    served = "refresh" =>
        /\ \A k \in 1 .. Len(historical) :
              /\ 0 <= historical[k].score /\ historical[k].score <= 1000
              /\ historical[k].score = ExpectedScore(historical[k])
        /\ \A j, k \in 1 .. Len(historical) :
              SamePollutants(historical[j], historical[k])
                  => historical[j].score = historical[k].score

\* one history holds the cleanest and the dirtiest reading the generator can
\* make, and two readings with the same pollutants and different temperatures
C6_Witness ==
    /\ served = "refresh"
    /\ \E k \in 1 .. Len(historical) : historical[k].score = 734
    /\ \E k \in 1 .. Len(historical) : historical[k].score = 102
    /\ \E j, k \in 1 .. Len(historical) :
          /\ SamePollutants(historical[j], historical[k])
          /\ historical[j].temp # historical[k].temp

\* the bands of the claim, on a score in 1e-5 units
BandOf(x) ==
    IF x >= 650000 THEN <<"Safe", "green">>
    ELSE IF 400000 <= x /\ x < 650000 THEN <<"Moderate", "yellow">>
    ELSE <<"High Emissions", "red">>

\* C7: the current score and the predicted score are classified by the same
\* bands: >= 6.5 Safe/green, [4.0, 6.5) Moderate/yellow, < 4.0 High
\* Emissions/red; 6.5 is Safe, 6.499 Moderate, 4.0 Moderate, 3.999 High.
C7_SameBands ==
    (served = "refresh" /\ response.success) =>
        LET cur == <<response.current.status, response.current.color>>
            pred == <<response.prediction.status, response.prediction.color>>
        IN  /\ cur = BandOf(Current.score * 1000)
            /\ pred = BandOf(predicted_score)
            /\ Current.score = 650 => cur = <<"Safe", "green">>
            /\ predicted_score = 650000 => pred = <<"Safe", "green">>
            /\ predicted_score = 649900 => pred = <<"Moderate", "yellow">>
            /\ predicted_score = 400000 => pred = <<"Moderate", "yellow">>
            /\ predicted_score = 399900 => pred = <<"High Emissions", "red">>

\* a current score of exactly 6.5 is Safe while a prediction of 6.499 is Moderate
C7_Witness ==
    /\ served = "refresh"
    /\ response.success
    /\ Current.score = 650
    /\ response.current.status = "Safe"
    /\ predicted_score = 649900
    /\ response.prediction.status = "Moderate"

\* the traffic factor of the claim, in tenths
ClaimedFactor(h) ==
    IF (7 <= h /\ h <= 9) \/ (17 <= h /\ h <= 19) THEN 15
    ELSE IF h >= 22 \/ h <= 5 THEN 6
    ELSE 10

\* reading r was made with traffic factor tf (tenths) and one noise in
\* [0.85, 1.15] applied to all four pollutants
MadeWithFactor(r, tf) ==
    /\ r.nox % (2 * tf) = 0
    /\ LET noise == r.nox \div (2 * tf)
       IN  /\ 850 <= noise /\ noise <= 1150
           /\ r.co = RoundHalfEven(25 * tf * noise, 1000)
           /\ r.c6h6 = RoundHalfEven(80 * tf * noise, 1000)
           /\ r.nox = RoundHalfEven(2000 * tf * noise, 1000)
           /\ r.no2 = RoundHalfEven(1100 * tf * noise, 1000)

\* C8: a reading whose own timestamp has hour h uses traffic factor 1.5 when
\* 7 <= h <= 9 or 17 <= h <= 19, 0.6 when h >= 22 or h <= 5, and 1.0
\* otherwise (9 -> 1.5, 10 -> 1.0, 22 -> 0.6, 5 -> 0.6, 6 -> 1.0), and the one
\* factor is applied to all four pollutants.
C8_TrafficFactorByHour ==
    served = "refresh" =>
        \A k \in 1 .. Len(historical) :
            LET r == historical[k]
                h == r.timestamp[2]
            IN  /\ h \in 0 .. 23
                /\ MadeWithFactor(r, ClaimedFactor(h))
                /\ h = 9 => MadeWithFactor(r, 15)
                /\ h = 10 => MadeWithFactor(r, 10)
                /\ h = 22 => MadeWithFactor(r, 6)
                /\ h = 5 => MadeWithFactor(r, 6)
                /\ h = 6 => MadeWithFactor(r, 10)

\* the newest reading is of hour 9 with the lowest noise, the one before it of
\* hour 8 with the highest
C8_Witness ==
    /\ served = "refresh"
    /\ Len(historical) = 24
    /\ historical[24].timestamp[2] = 9
    /\ historical[24].nox = 2 * 15 * 850
    /\ historical[23].nox = 2 * 15 * 1150
    /\ historical[1].timestamp[2] = 10

\* C9 as stated: in a success response the status and color of `current` and of
\* `prediction` are the band of the score reported in the same object.
C9_StatusMatchesReportedScore ==
    (served = "refresh" /\ response.success) =>
        /\ <<response.current.status, response.current.color>>
              = BandOf(response.current.score * 1000)
        /\ <<response.prediction.status, response.prediction.color>>
              = BandOf(response.prediction.score * 1000)

\* C9 amended: `current` carries the band of its reported score; `prediction`
\* carries the band of the predicted score before it is rounded to 2 decimals,
\* which is the band of the reported score unless the reported score is exactly
\* 6.50 or 4.00 (then it may carry the band below).
C9_StatusMatchesUnroundedScore ==
    (served = "refresh" /\ response.success) =>
        LET pred == <<response.prediction.status, response.prediction.color>>
            shown == response.prediction.score
        IN  /\ <<response.current.status, response.current.color>>
                  = BandOf(response.current.score * 1000)
            /\ response.current.score = Current.score
            /\ pred = BandOf(predicted_score)
            /\ shown = RoundHalfEven(predicted_score, 1000)
            /\ shown \notin {650, 400} => pred = BandOf(shown * 1000)
            /\ shown = 650 => pred \in { <<"Safe", "green">>, <<"Moderate", "yellow">> }
            /\ shown = 400 => pred \in { <<"Moderate", "yellow">>,
                                         <<"High Emissions", "red">> }

\* the fallback predicted 7.22 * 0.9 = 6.498: reported as 6.5, labelled Moderate
C9_Witness ==
    /\ served = "refresh"
    /\ response.success
    /\ fallbackFactor = 900
    /\ Current.score = 722
    /\ response.prediction.score = 650
    /\ response.prediction.status = "Moderate"

\* C10: in every success response prediction.score lies in [0, 10]: on the
\* model path whatever model.predict returns, on the fallback path (no clamp)
\* for every score the generator can produce.
C10_PredictionInRange ==
    (served = "refresh" /\ response.success) =>
        /\ 0 <= response.prediction.score
        /\ response.prediction.score <= 1000
        /\ 0 <= predicted_score /\ predicted_score <= 1000000

\* the fallback multiplied the highest score the generator makes by 1.1
C10_Witness ==
    /\ served = "refresh"
    /\ response.success
    /\ fallbackFactor = 1100
    /\ Current.score = 734
    /\ response.prediction.score = 807

====
